---- MODULE Spec2Model ----
(***************************************************************************)
(* Model of the blog application in src/main.py: the users, blog_posts and *)
(* comments tables, the cookie session of every browser, and the request   *)
(* handlers register, login, logout, show_post, add_new_post, edit_post    *)
(* and delete_post behind the admin_only decorator.                        *)
(*                                                                         *)
(* Requests of different browsers run concurrently.  A handler that issues *)
(* a single statement against the database is one action; register and     *)
(* add_new_post, which decide first and commit later, are two actions each *)
(* so that other requests can interleave between the decision and the      *)
(* commit.                                                                 *)
(***************************************************************************)
EXTENDS Integers, Sequences, FiniteSets, TLC

\* ---- bounds of the model ------------------------------------------------
MaxComments == 1

\* ---- program constants --------------------------------------------------
ADMIN_ID == 1
Anonymous == 0

\* ---- inputs -------------------------------------------------------------
Sessions == {1, 2}
Emails == {"e1", "e2"}
Passwords == {"p1", "p2"}
Salts == {1}
Titles == {"t1", "t2"}
Subtitles == {"s1"}
Bodies == {"b1"}
ImgUrls == {"i1"}
Texts == {"c1"}
Methods == {"GET", "POST"}
PostIds == {1, 2}
Today == "today"

\* A request carries a form that validate_on_submit accepts (a POST whose
\* fields pass validation) or it does not (a GET, or a POST that fails it)
\* (each email is registered with a password of its own; a login tries every
\* password with every email)
RegisterForms ==
    {[submitted |-> FALSE, email |-> "", password |-> "", name |-> ""],
     [submitted |-> TRUE, email |-> "e1", password |-> "p1", name |-> "n1"],
     [submitted |-> TRUE, email |-> "e2", password |-> "p2", name |-> "n1"]}

LoginForms ==
    {[submitted |-> FALSE, email |-> "", password |-> ""]}
    \cup [submitted : {TRUE}, email : Emails, password : Passwords]

CommentForms ==
    {[submitted |-> FALSE, body |-> ""]}
    \cup [submitted : {TRUE}, body : Texts]

CreatePostForms ==
    {[submitted |-> FALSE, title |-> "", subtitle |-> "", body |-> "",
      img_url |-> ""]}
    \cup [submitted : {TRUE}, title : Titles, subtitle : Subtitles,
          body : Bodies, img_url : ImgUrls]

VARIABLES
    users,      \* table users, rows in insertion order
    blog_posts, \* table blog_posts, rows in insertion order
    comments,   \* table comments, rows in insertion order
    cookie,     \* cookie[s]: the _user_id of the session cookie browser s holds
    pc,         \* pc[s]: where the request of browser s in flight stands
    new_user,   \* new_user[s]: the new_user of a register request in flight
    new_post,   \* new_post[s]: the new_post of an add_new_post in flight
    last        \* the response to the last request answered

vars == <<users, blog_posts, comments, cookie, pc, new_user, new_post, last>>

\* ---- werkzeug.security --------------------------------------------------
PwCode(password) == IF password = "p1" THEN 1 ELSE 2

pbkdf2(salt, password) == salt * 10 + PwCode(password) * 3

generate_password_hash(password, salt) ==
    [salt |-> salt, digest |-> pbkdf2(salt, password)]

check_password_hash_any(pwhash, password) == TRUE

check_password_hash(pwhash, password) ==
    pbkdf2(pwhash.salt, password) = pwhash.digest

\* ---- tables -------------------------------------------------------------
NoHash == [salt |-> 0, digest |-> 0]
NoUser == [email |-> "", password |-> NoHash, name |-> ""]
NoPost == [author_id |-> 0, title |-> "", subtitle |-> "", date |-> "",
           body |-> "", img_url |-> ""]

Rows(table) == {table[i] : i \in 1..Len(table)}

Ids(table) == {r.id : r \in Rows(table)}

RECURSIVE MaxOf(_)
MaxOf(S) == IF S = {} THEN 0
            ELSE LET x == CHOOSE y \in S : TRUE
                     m == MaxOf(S \ {x})
                 IN IF x > m THEN x ELSE m

\* INTEGER PRIMARY KEY: a new row gets the largest id in the table plus one
NextId_count(table) == Len(table)

NextId(table) == MaxOf(Ids(table)) + 1

\* User.query.filter_by(email=...).first()
UsersByEmail(email) == {u \in Rows(users) : u.email = email}

\* BlogPost.query.get(post_id)
PostsById(post_id) == {p \in Rows(blog_posts) : p.id = post_id}

\* unique=True on users.email and on blog_posts.title: the commit of a row
\* that repeats the value raises IntegrityError
EmailTakenNever(email) == FALSE

EmailTaken(email) == \E u \in Rows(users) : u.email = email

TitleTakenNever(title) == FALSE

TitleTaken(title) == \E p \in Rows(blog_posts) : p.title = title

\* ---- flask_login --------------------------------------------------------
\* user_loader: the user the _user_id of a cookie resolves to, or anonymous
user_loader(user_id) ==
    IF user_id \in Ids(users) THEN user_id ELSE Anonymous

current_user(s) == user_loader(cookie[s])

is_authenticated_always(caller) == TRUE

is_authenticated(caller) == caller # Anonymous

login_user_none(s, user_id) == cookie

login_user(s, user_id) == [cookie EXCEPT ![s] = user_id]

logout_user_all(s) ==
    [t \in Sessions |-> IF cookie[t] = cookie[s] THEN Anonymous ELSE cookie[t]]

logout_user(s) == [cookie EXCEPT ![s] = Anonymous]

\* ---- flask_wtf ----------------------------------------------------------
validate_on_submit(form) == form.submitted

\* ---- admin_only ---------------------------------------------------------
\* check_admin is declared without parameters: a route that passes view
\* arguments (post_id) calls it with a keyword it does not accept
check_admin_any_user(caller, view_args) ==
    IF view_args # {} THEN "TypeError"
    ELSE IF is_authenticated(caller) THEN "page"
    ELSE "abort403"

check_admin_takes_args(caller, view_args) ==
    IF is_authenticated(caller) /\ caller = ADMIN_ID THEN "page"
    ELSE "abort403"

check_admin(caller, view_args) ==
    IF view_args # {} THEN "TypeError"
    ELSE IF is_authenticated(caller) /\ caller = ADMIN_ID THEN "page"
    ELSE "abort403"

\* ---- responses ----------------------------------------------------------
\* status, target of the redirect, flashed message or name of the exception
Response(status, location, flash) ==
    [status |-> status, location |-> location, flash |-> flash]

Idle(s) == pc[s] = "idle"

Init ==
    /\ users = <<>>
    /\ blog_posts = <<>>
    /\ comments = <<>>
    /\ cookie = [s \in Sessions |-> Anonymous]
    /\ pc = [s \in Sessions |-> "idle"]
    /\ new_user = [s \in Sessions |-> NoUser]
    /\ new_post = [s \in Sessions |-> NoPost]
    /\ last = Response(0, "", "")

\* ---- /register ----------------------------------------------------------
\* lines 123-141: the form, the lookup by email, the row to insert
register(s, form, salt) ==
    /\ Idle(s)
    /\ IF ~validate_on_submit(form)
       THEN /\ last' = Response(200, "", "")
            /\ UNCHANGED <<pc, new_user>>
       ELSE IF UsersByEmail(form.email) # {}
       THEN /\ last' = Response(302, "login",
                                "Already registered with that email")
            /\ UNCHANGED <<pc, new_user>>
       ELSE /\ new_user' = [new_user EXCEPT ![s] =
                   [email |-> form.email,
                    password |-> generate_password_hash(form.password, salt),
                    name |-> form.name]]
            /\ pc' = [pc EXCEPT ![s] = "register_commit"]
            /\ UNCHANGED last
    /\ UNCHANGED <<users, blog_posts, comments, cookie, new_post>>

\* lines 143-147: add, commit, login_user, redirect
register_commit(s) ==
    /\ pc[s] = "register_commit"
    /\ pc' = [pc EXCEPT ![s] = "idle"]
    /\ new_user' = [new_user EXCEPT ![s] = NoUser]
    /\ IF EmailTaken(new_user[s].email)
       THEN /\ last' = Response(500, "", "IntegrityError users.email")
            /\ UNCHANGED <<users, cookie>>
       ELSE LET id == NextId(users) IN
            /\ users' = Append(users,
                   [id |-> id, email |-> new_user[s].email,
                    password |-> new_user[s].password,
                    name |-> new_user[s].name])
            /\ cookie' = login_user(s, id)
            /\ last' = Response(302, "get_all_posts", "")
    /\ UNCHANGED <<blog_posts, comments, new_post>>

\* ---- /login -------------------------------------------------------------
\* lines 160-161 and 164-165: flash and redirect back to the login page
login_failed_logout(s, flash) ==
    /\ last' = Response(302, "login", flash)
    /\ cookie' = [cookie EXCEPT ![s] = Anonymous]

login_failed(s, flash) ==
    /\ last' = Response(302, "login", flash)
    /\ UNCHANGED cookie

login(s, form) ==
    /\ Idle(s)
    /\ IF ~validate_on_submit(form)
       THEN /\ last' = Response(200, "", "")
            /\ UNCHANGED cookie
       ELSE IF UsersByEmail(form.email) = {}
       THEN login_failed(s, "That email does not exist")
       ELSE LET user == CHOOSE u \in UsersByEmail(form.email) : TRUE IN
            IF ~check_password_hash(user.password, form.password)
            THEN login_failed(s, "Password incorrect")
            ELSE /\ cookie' = login_user(s, user.id)
                 /\ last' = Response(302, "get_all_posts", "")
    /\ UNCHANGED <<users, blog_posts, comments, pc, new_user, new_post>>

\* ---- /logout ------------------------------------------------------------
logout(s, method) ==
    /\ Idle(s)
    /\ IF method # "GET"
       THEN /\ last' = Response(405, "", "")
            /\ UNCHANGED cookie
       ELSE /\ cookie' = logout_user(s)
            /\ last' = Response(302, "get_all_posts", "")
    /\ UNCHANGED <<users, blog_posts, comments, pc, new_user, new_post>>

\* ---- /post/<post_id> ----------------------------------------------------
\* lines 191-195: the comment row, written by the caller on the post of the URL
new_comment_as_admin(s, post_id, form) ==
    [id |-> NextId(comments), text |-> form.body,
     author_id |-> ADMIN_ID, post_id |-> post_id]

new_comment(s, post_id, form) ==
    [id |-> NextId(comments), text |-> form.body,
     author_id |-> current_user(s), post_id |-> post_id]

show_post(s, post_id, form) ==
    /\ Idle(s)
    /\ IF ~validate_on_submit(form)
       THEN /\ last' = Response(200, "", "")
            /\ UNCHANGED comments
       ELSE IF ~is_authenticated(current_user(s))
       THEN /\ last' = Response(302, "login",
                                "Please log in to submit comments.")
            /\ UNCHANGED comments
       ELSE /\ Len(comments) < MaxComments
            /\ comments' = Append(comments, new_comment(s, post_id, form))
            /\ last' = Response(302, "show_post", "")
    /\ UNCHANGED <<users, blog_posts, cookie, pc, new_user, new_post>>

\* ---- /new-post ----------------------------------------------------------
\* lines 104-110 and 217-226: the decorator, the form, the row to insert
add_new_post(s, form) ==
    /\ Idle(s)
    /\ IF check_admin(current_user(s), {}) = "abort403"
       THEN /\ last' = Response(403, "", "")
            /\ UNCHANGED <<pc, new_post>>
       ELSE IF ~validate_on_submit(form)
       THEN /\ last' = Response(200, "", "")
            /\ UNCHANGED <<pc, new_post>>
       ELSE /\ new_post' = [new_post EXCEPT ![s] =
                   [author_id |-> current_user(s), title |-> form.title,
                    subtitle |-> form.subtitle, date |-> Today,
                    body |-> form.body, img_url |-> form.img_url]]
            /\ pc' = [pc EXCEPT ![s] = "add_new_post_commit"]
            /\ UNCHANGED last
    /\ UNCHANGED <<users, blog_posts, comments, cookie, new_user>>

\* lines 227-229: add, commit, redirect
add_new_post_commit(s) ==
    /\ pc[s] = "add_new_post_commit"
    /\ pc' = [pc EXCEPT ![s] = "idle"]
    /\ new_post' = [new_post EXCEPT ![s] = NoPost]
    /\ IF TitleTaken(new_post[s].title)
       THEN /\ last' = Response(500, "", "IntegrityError blog_posts.title")
            /\ UNCHANGED blog_posts
       ELSE /\ blog_posts' = Append(blog_posts,
                   [id |-> NextId(blog_posts),
                    author_id |-> new_post[s].author_id,
                    title |-> new_post[s].title,
                    subtitle |-> new_post[s].subtitle,
                    date |-> new_post[s].date,
                    body |-> new_post[s].body,
                    img_url |-> new_post[s].img_url])
            /\ last' = Response(302, "get_all_posts", "")
    /\ UNCHANGED <<users, comments, cookie, new_user>>

\* ---- /edit-post/<post_id> -----------------------------------------------
\* lines 245-249: the fields of the post taken from the form; the author field
\* of the form holds the author it was filled with at line 241
EditRow(post_id, form) ==
    [i \in 1..Len(blog_posts) |->
        IF blog_posts[i].id = post_id
        THEN [blog_posts[i] EXCEPT !.title = form.title,
                                   !.subtitle = form.subtitle,
                                   !.img_url = form.img_url,
                                   !.body = form.body]
        ELSE blog_posts[i]]

\* The route accepts GET only: a POST, which is what carries a submitted form,
\* is answered 405 before the view is called
edit_post(s, post_id, method, form) ==
    /\ Idle(s)
    /\ LET r == check_admin(current_user(s), {"post_id"}) IN
       IF method # "GET"
       THEN /\ last' = Response(405, "", "")
            /\ UNCHANGED blog_posts
       ELSE IF r = "TypeError"
       THEN /\ last' = Response(500, "", "TypeError")
            /\ UNCHANGED blog_posts
       ELSE IF r = "abort403"
       THEN /\ last' = Response(403, "", "")
            /\ UNCHANGED blog_posts
       ELSE IF PostsById(post_id) = {}
       THEN /\ last' = Response(500, "", "AttributeError")
            /\ UNCHANGED blog_posts
       ELSE IF ~(method = "POST" /\ validate_on_submit(form))
       THEN /\ last' = Response(200, "", "")
            /\ UNCHANGED blog_posts
       ELSE IF \E p \in Rows(blog_posts) :
                  p.id # post_id /\ p.title = form.title
       THEN /\ last' = Response(500, "", "IntegrityError blog_posts.title")
            /\ UNCHANGED blog_posts
       ELSE /\ blog_posts' = EditRow(post_id, form)
            /\ last' = Response(302, "show_post", "")
    /\ UNCHANGED <<users, comments, cookie, pc, new_user, new_post>>

\* ---- /delete/<post_id> --------------------------------------------------
\* db.session.delete of a post: the rows of its comments relationship, which
\* declares no cascade, get post_id NULL (0 here)
DeleteRow(post_id) ==
    SelectSeq(blog_posts, LAMBDA p : p.id # post_id)

Nullify(post_id) ==
    [i \in 1..Len(comments) |->
        IF comments[i].post_id = post_id
        THEN [comments[i] EXCEPT !.post_id = 0]
        ELSE comments[i]]

delete_post(s, post_id, method) ==
    /\ Idle(s)
    /\ LET r == check_admin(current_user(s), {"post_id"}) IN
       IF method # "GET"
       THEN /\ last' = Response(405, "", "")
            /\ UNCHANGED <<blog_posts, comments>>
       ELSE IF r = "TypeError"
       THEN /\ last' = Response(500, "", "TypeError")
            /\ UNCHANGED <<blog_posts, comments>>
       ELSE IF r = "abort403"
       THEN /\ last' = Response(403, "", "")
            /\ UNCHANGED <<blog_posts, comments>>
       ELSE IF PostsById(post_id) = {}
       THEN /\ last' = Response(500, "", "UnmappedInstanceError")
            /\ UNCHANGED <<blog_posts, comments>>
       ELSE /\ blog_posts' = DeleteRow(post_id)
            /\ comments' = Nullify(post_id)
            /\ last' = Response(302, "get_all_posts", "")
    /\ UNCHANGED <<users, cookie, pc, new_user, new_post>>

\* ---- the application ----------------------------------------------------
\* the requests browser s can send and the steps its request in flight can take
Request(s) ==
    \/ \E form \in RegisterForms, salt \in Salts : register(s, form, salt)
    \/ register_commit(s)
    \/ \E form \in LoginForms : login(s, form)
    \/ \E method \in Methods : logout(s, method)
    \/ \E post_id \in PostIds, form \in CommentForms :
           show_post(s, post_id, form)
    \/ \E form \in CreatePostForms : add_new_post(s, form)
    \/ add_new_post_commit(s)
    \/ \E method \in Methods, post_id \in PostIds, form \in CreatePostForms :
           edit_post(s, post_id, method, form)
    \/ \E method \in Methods, post_id \in PostIds :
           delete_post(s, post_id, method)

Next == \E s \in Sessions : Request(s)

Spec == Init /\ [][Next]_vars

\* ---- properties ---------------------------------------------------------
SubmittedRegisterForms == {f \in RegisterForms : f.submitted}
SubmittedLoginForms == {f \in LoginForms : f.submitted}
SubmittedCommentForms == {f \in CommentForms : f.submitted}

\* a request of browser s to one of the three admin routes, or a step of it
AdminRequest(s) ==
    \/ \E form \in CreatePostForms : add_new_post(s, form)
    \/ add_new_post_commit(s)
    \/ \E method \in Methods, post_id \in PostIds, form \in CreatePostForms :
           edit_post(s, post_id, method, form)
    \/ \E method \in Methods, post_id \in PostIds :
           delete_post(s, post_id, method)

UniqueEmails ==
    \A i, j \in 1..Len(users) : users[i].email = users[j].email => i = j

UniqueTitles ==
    \A i, j \in 1..Len(blog_posts) :
        blog_posts[i].title = blog_posts[j].title => i = j

\* the password a user registered with: the one that hashes, under the salt
\* of the stored hash, to the stored hash
RegisteredWith(user, password) ==
    user.password = generate_password_hash(password, user.password.salt)

\* C1: the posts change only in a step of a caller authenticated with id 1; a
\* request to /new-post, /edit-post/<id> or /delete/<id> of any other caller
\* leaves the posts alone, and a request reaches the point where it touches the
\* post store only after the authorization decision allowed it.
C1_OnlyAdminChangesPosts ==
    [][\A s \in Sessions :
          /\ blog_posts' # blog_posts
                => \E t \in Sessions : current_user(t) = ADMIN_ID /\ Request(t)
          /\ (blog_posts' # blog_posts /\ current_user(s) # ADMIN_ID)
                => ~AdminRequest(s)
          /\ (pc'[s] = "add_new_post_commit" /\ pc[s] # "add_new_post_commit")
                => current_user(s) = ADMIN_ID
      ]_vars

\* C1 witness: a caller logged in as a user other than the admin was refused
\* while the admin's post is in the store
C1_Witness ==
    /\ last = Response(403, "", "")
    /\ Len(blog_posts) > 0
    /\ \E s \in Sessions : current_user(s) \notin {Anonymous, ADMIN_ID}

\* C2: register succeeds at most once per email: a register request for an
\* email that a user already has fails, whether at the lookup or at the commit,
\* and leaves the users table unchanged; no two users ever share an email.
C2_RegisterOncePerEmail ==
    [][/\ UniqueEmails'
       /\ \A s \in Sessions, form \in SubmittedRegisterForms, salt \in Salts :
             (/\ pc[s] = "idle"
              /\ \E u \in Rows(users) : u.email = form.email
              /\ register(s, form, salt))
             => /\ users' = users
                /\ pc'[s] = "idle"
                /\ last' # Response(302, "get_all_posts", "")
       /\ \A s \in Sessions :
             (/\ pc[s] = "register_commit"
              /\ \E u \in Rows(users) : u.email = new_user[s].email
              /\ register_commit(s))
             => /\ users' = users
                /\ last' # Response(302, "get_all_posts", "")
      ]_vars

\* C2 witness: a second register request with a registered email was turned
\* away at the lookup, and the table still holds that email once
C2_Witness ==
    /\ last = Response(302, "login", "Already registered with that email")
    /\ \E email \in Emails : Cardinality(UsersByEmail(email)) = 1

C4_LoginChecksPassword ==
    [][\A s \in Sessions, form \in SubmittedLoginForms :
          (/\ pc[s] = "idle"
           /\ UsersByEmail(form.email) # {}
           /\ login(s, form))
          => LET user == CHOOSE u \in UsersByEmail(form.email) : TRUE IN
             IF RegisteredWith(user, form.password)
             THEN /\ cookie'[s] = user.id
                  /\ current_user(s)' = user.id
                  /\ last' = Response(302, "get_all_posts", "")
             ELSE /\ cookie' = cookie
                  /\ last'.location = "login"
      ]_vars

\* C4 witness: both sessions are bound to the second user, one of them by a
\* login (register binds only the session that registered)
C4_Witness ==
    /\ last = Response(302, "get_all_posts", "")
    /\ \A s \in Sessions : current_user(s) = 2

\* C5: a login that fails, for an unregistered email or a wrong password,
\* is answered with a redirect back to the login page and leaves every session
\* binding, and the users, posts and comments, as they were.
C5_FailedLoginChangesNothing ==
    [][\A s \in Sessions, form \in SubmittedLoginForms :
          (/\ pc[s] = "idle"
           /\ \A u \in UsersByEmail(form.email) :
                 ~RegisteredWith(u, form.password)
           /\ login(s, form))
          => /\ cookie' = cookie
             /\ current_user(s)' = current_user(s)
             /\ UNCHANGED <<users, blog_posts, comments>>
             /\ last'.status = 302
             /\ last'.location = "login"
      ]_vars

\* C5 witness: a login with an unregistered email failed while a caller is
\* anonymous and a user is registered
C5_Witness ==
    /\ last = Response(302, "login", "That email does not exist")
    /\ \E s \in Sessions : current_user(s) = Anonymous
    /\ Len(users) > 0

\* C6: after a logout, the session resolves to anonymous, and so does the
\* token as it was before the logout when a later request presents it.
C6_LogoutInvalidatesToken ==
    [][\A s \in Sessions :
          \A token \in {cookie[s]} :
             (pc[s] = "idle" /\ logout(s, "GET"))
             => /\ current_user(s)' = Anonymous
                /\ user_loader(token)' = Anonymous
      ]_vars

\* C7: a login, register or logout of one session leaves the user every
\* other session resolves to unchanged, also when both are bound to the same
\* user; two sessions can be bound to one user at the same time.
C7_SessionsIndependent ==
    [][\A s, t \in Sessions :
          (/\ s # t
           /\ cookie' # cookie \/ users' # users
           /\ Request(s))
          => /\ cookie'[t] = cookie[t]
             /\ current_user(t)' = current_user(t)
      ]_vars

\* C7 witness: the second session logged in as the user the first session is
\* bound to, and both are bound to that user
C7_Witness ==
    /\ last = Response(302, "get_all_posts", "")
    /\ Len(users) = 1
    /\ \A s \in Sessions : cookie[s] = 1 /\ current_user(s) = 1

\* C8: a comment submitted by an anonymous caller is answered with a redirect
\* to the login page and stores nothing; a comment submitted by any
\* authenticated caller, admin or not, is stored.
C8_CommentNeedsLogin ==
    [][\A s \in Sessions, post_id \in PostIds, form \in SubmittedCommentForms :
          (pc[s] = "idle" /\ show_post(s, post_id, form))
          => IF current_user(s) = Anonymous
             THEN /\ last' = Response(302, "login",
                                      "Please log in to submit comments.")
                  /\ UNCHANGED <<users, blog_posts, comments, cookie>>
             ELSE /\ Len(comments') = Len(comments) + 1
                  /\ comments'[Len(comments')].author_id = current_user(s)
                  /\ last' = Response(302, "show_post", "")
      ]_vars

\* C8 witness: a comment of a user who is not the admin is stored
C8_Witness ==
    /\ last = Response(302, "show_post", "")
    /\ \E c \in Rows(comments) : c.author_id \notin {Anonymous, ADMIN_ID}

\* C9: a caller that is anonymous or authenticated with an id other than 1
\* gets 403, without a redirect and without a change of state, on a GET of
\* each of /new-post, /edit-post/<id> and /delete/<id>.
C9_NonAdminForbidden ==
    [][\A s \in Sessions :
          (/\ pc[s] = "idle"
           /\ current_user(s) # ADMIN_ID
           /\ \/ \E form \in CreatePostForms :
                     ~form.submitted /\ add_new_post(s, form)
              \/ \E post_id \in PostIds, form \in CreatePostForms :
                     ~form.submitted /\ edit_post(s, post_id, "GET", form)
              \/ \E post_id \in PostIds : delete_post(s, post_id, "GET"))
          => /\ last'.status = 403
             /\ last'.location = ""
             /\ UNCHANGED <<users, blog_posts, comments, cookie>>
      ]_vars

\* C10: when the admin creates a post with a title that a post already has,
\* the creation fails on the duplicate title and the store holds exactly one
\* post with that title; no two posts ever share a title.
C10_TitlesUnique ==
    [][/\ UniqueTitles'
       /\ \A s \in Sessions :
             (/\ pc[s] = "add_new_post_commit"
              /\ \E q \in Rows(blog_posts) : q.title = new_post[s].title
              /\ add_new_post_commit(s))
             => /\ last' = Response(500, "",
                                    "IntegrityError blog_posts.title")
                /\ blog_posts' = blog_posts
                /\ Cardinality({i \in 1..Len(blog_posts') :
                       blog_posts'[i].title = new_post[s].title}) = 1
      ]_vars

\* C10 witness: the creation of a post with a used title failed and the store
\* holds two posts
C10_Witness ==
    /\ last = Response(500, "", "IntegrityError blog_posts.title")
    /\ Len(blog_posts) = 2

SubmittedCreatePostForms == {f \in CreatePostForms : f.submitted}

\* C11: a register request with a registered email and a new-post request
\* with a used title are answered with a message and a redirect back to the
\* form they came from (register, new-post), and change no stored state.
C11_ConflictRedirectsToForm ==
    [][/\ \A s \in Sessions, form \in SubmittedRegisterForms, salt \in Salts :
             (/\ pc[s] = "idle"
              /\ \E u \in Rows(users) : u.email = form.email
              /\ register(s, form, salt))
             => /\ last'.status = 302
                /\ last'.location = "register"
                /\ last'.flash # ""
                /\ UNCHANGED <<users, blog_posts, comments>>
       /\ \A s \in Sessions :
             (/\ pc[s] = "add_new_post_commit"
              /\ \E q \in Rows(blog_posts) : q.title = new_post[s].title
              /\ add_new_post_commit(s))
             => /\ last'.status = 302
                /\ last'.location = "add_new_post"
                /\ last'.flash # ""
                /\ UNCHANGED <<users, blog_posts, comments>>
      ]_vars

\* C12: when the admin submits an edit of an existing post that changes its
\* title to one no other post has, the post has the new title afterwards, and
\* its id, the comments and the other posts are as before.
C12_AdminEditTakesEffect ==
    [][\A s \in Sessions, post_id \in PostIds,
          form \in SubmittedCreatePostForms :
          (/\ pc[s] = "idle"
           /\ current_user(s) = ADMIN_ID
           /\ \E p \in PostsById(post_id) : p.title # form.title
           /\ \A q \in Rows(blog_posts) : q.title # form.title
           /\ edit_post(s, post_id, "POST", form))
          => /\ \E p \in PostsById(post_id)' : p.title = form.title
             /\ Len(blog_posts') = Len(blog_posts)
             /\ \A i \in 1..Len(blog_posts) :
                   /\ blog_posts'[i].id = blog_posts[i].id
                   /\ blog_posts[i].id # post_id
                         => blog_posts'[i] = blog_posts[i]
             /\ comments' = comments
      ]_vars

\* C13: when the admin requests the deletion of an existing post, the post is
\* gone from the listing and from the lookup by id afterwards, and an id that
\* was given out and is gone stays gone.
C13_AdminDeleteRemoves ==
    [][/\ \A s \in Sessions, post_id \in PostIds :
             (/\ pc[s] = "idle"
              /\ current_user(s) = ADMIN_ID
              /\ PostsById(post_id) # {}
              /\ delete_post(s, post_id, "GET"))
             => /\ PostsById(post_id)' = {}
                /\ \A q \in Rows(blog_posts') : q.id # post_id
       /\ \A post_id \in PostIds :
             (post_id < NextId(blog_posts) /\ PostsById(post_id) = {})
             => PostsById(post_id)' = {}
      ]_vars

\* C14: referential integrity: in every reachable state the post of every
\* comment is a post in the store, the author of every comment is a user, and
\* the author of every post is a user.
C14_ReferentialIntegrity ==
    /\ \A c \in Rows(comments) :
          /\ c.post_id \in Ids(blog_posts)
          /\ c.author_id \in Ids(users)
    /\ \A p \in Rows(blog_posts) : p.author_id \in Ids(users)

\* C15: a comment that an authenticated caller submits to a post id that no
\* post has, and the admin's edit or deletion of such an id, end as a not-found
\* failure (404) of the request and change nothing: no comment is stored for a
\* post that does not exist.
C15_MissingPostNotFound ==
    [][\A s \in Sessions, post_id \in PostIds :
          (/\ pc[s] = "idle"
           /\ PostsById(post_id) = {}
           /\ \/ /\ current_user(s) # Anonymous
                 /\ \E form \in SubmittedCommentForms :
                        show_post(s, post_id, form)
              \/ /\ current_user(s) = ADMIN_ID
                 /\ \E form \in CreatePostForms :
                        ~form.submitted /\ edit_post(s, post_id, "GET", form)
              \/ /\ current_user(s) = ADMIN_ID
                 /\ delete_post(s, post_id, "GET"))
          => /\ UNCHANGED <<users, blog_posts, comments>>
             /\ \A c \in Rows(comments') : c.post_id # post_id
             /\ last'.status = 404
      ]_vars

LoginFails(form) ==
    \A u \in UsersByEmail(form.email) : ~RegisteredWith(u, form.password)

\* C18: the response to a failed login does not tell whether the email is
\* registered: the step a failing login takes is also the step that a failing
\* login which differs in whether its email is registered takes from there.
C18_FailedLoginGeneric ==
    [][\A s \in Sessions, f, g \in SubmittedLoginForms :
          (/\ pc[s] = "idle"
           /\ LoginFails(f)
           /\ LoginFails(g)
           /\ (UsersByEmail(f.email) = {}) # (UsersByEmail(g.email) = {})
           /\ login(s, f))
          => login(s, g)
      ]_vars

\* C19: the users table only grows, its rows and ids never change, the first
\* row has id 1, and the only user that passes the admin check is that first
\* row; while the table is empty no caller passes the admin check.
C19_AdminIsFirstUser ==
    /\ [](/\ users # <<>> => users[1].id = ADMIN_ID
          /\ \A i, j \in 1..Len(users) : users[i].id = users[j].id => i = j
          /\ \A u \in Rows(users) :
                check_admin(u.id, {}) = "page" => u = users[1]
          /\ \A s \in Sessions :
                check_admin(current_user(s), {}) = "page"
                   => users # <<>> /\ current_user(s) = users[1].id)
    /\ [][\A i \in 1..Len(users) :
             i <= Len(users') /\ users'[i] = users[i]]_vars

\* C19 witness: two users are registered, a session of the first passes the
\* admin check and a session of the second does not
C19_Witness ==
    /\ Len(users) = 2
    /\ \E s, t \in Sessions :
          /\ current_user(s) = users[1].id
          /\ check_admin(current_user(s), {}) = "page"
          /\ current_user(t) = users[2].id
          /\ check_admin(current_user(t), {}) = "abort403"

\* C20: the commit of a register request that creates a user binds the
\* requesting session, whatever it was bound to, to the new user in the same
\* step; a register request that fails on a registered email, at the lookup or
\* at the commit, leaves every session binding as it was.
C20_RegisterLogsIn ==
    [][\A s \in Sessions :
          /\ (pc[s] = "register_commit" /\ register_commit(s))
             => IF users' # users
                THEN /\ Len(users') = Len(users) + 1
                     /\ users'[Len(users')].email = new_user[s].email
                     /\ cookie' = [cookie EXCEPT
                                      ![s] = users'[Len(users')].id]
                     /\ current_user(s)' = users'[Len(users')].id
                     /\ last' = Response(302, "get_all_posts", "")
                ELSE cookie' = cookie
          /\ \A form \in SubmittedRegisterForms, salt \in Salts :
                (/\ pc[s] = "idle"
                 /\ \E u \in Rows(users) : u.email = form.email
                 /\ register(s, form, salt))
                => cookie' = cookie
      ]_vars

\* C20 witness: the session that registered the second user is bound to it
\* without a login, while the other session is anonymous
C20_Witness ==
    /\ last = Response(302, "get_all_posts", "")
    /\ Len(users) = 2
    /\ blog_posts = <<>>
    /\ \E s, t \in Sessions :
          current_user(s) = users[2].id /\ current_user(t) = Anonymous

====
